---------------------------- MODULE Spec2Model ----------------------------
(***************************************************************************)
(* Batched media assembly of BedtimeVideoCreator                           *)
(* (src/test_project/src/bedtime_video_creator.py).                        *)
(*                                                                         *)
(* One call of process_bedtime_video is a process: it validates its        *)
(* inputs, encodes the scenes batch by batch with the external encoder,    *)
(* writes the concat manifest, muxes, removes the intermediate clips and   *)
(* probes the final video.  The file system is shared by all calls.  The   *)
(* external tools (ffmpeg, ffprobe) are the environment: every invocation  *)
(* succeeds, fails leaving nothing, or fails leaving a partial output.     *)
(* Durations and lengths are in milliseconds.                              *)
(*                                                                         *)
(* BedtimeHistoryPipeline.run (src/test_project/src/                       *)
(* bedtime_history_pipeline.py) is a second state machine, SpecPipeline:   *)
(* its stage calls are the environment, its checks and handlers the steps. *)
(***************************************************************************)
EXTENDS Integers, Sequences, FiniteSets, TLC

VARIABLES
    args,                 \* per call: the arguments and the creator's fields
    pc,                   \* per call: position in process_bedtime_video
    subtitle_path,        \* per call: local subtitle_path (rebound at line 399)
    i,                    \* per call: loop variable of _create_bedtime_video
    intermediate_videos,  \* per call: list built by _create_bedtime_video
    concat_file,          \* per call: manifest path of _combine_videos
    output_path,          \* per call: final video path of _combine_videos
    err,                  \* per call: the exception that reached the caller
    result,               \* per call: the dictionary returned
    trace,                \* per call: history of tool invocations and file operations
    fs,                   \* the file system: path -> content, for existing files
    clock,                \* wall clock in seconds, read by get_timestamp
    replayOf,             \* per call: the call whose tool outcomes the environment repeats
    pipeline,             \* the run of BedtimeHistoryPipeline.run
    retry,                \* one call of a function wrapped by retry_with_backoff
    limiter,              \* the workers calling a function wrapped by rate_limiter
    generation,           \* one call of generate_bedtime_images
    progress              \* the calls of generate_single_video on one prompts directory

vars == <<args, pc, subtitle_path, i, intermediate_videos, concat_file,
          output_path, err, result, trace, fs, clock, replayOf, pipeline,
          retry, limiter, generation, progress>>

----------------------------------------------------------------------------
(* Bounds of the model *)

MaxScenes == 3

MaxBatchSize == 3

MaxClock == 2

MaxReplayScenes == 2

MaxConcurrentScenes == 1

MaxConcurrentBatchSize == 1

MaxSharedScenes == 1

MaxSharedBatchSize == 1

MaxRetries == 2

MaxTime == 13

MaxWrapperCalls == 2

MaxGenScenes == 3

MaxWorkers == 2

MaxProgressCalls == 3

Procs == {"A", "B", "C"}

\* Scene durations in milliseconds (multiples of 4, so duration / 4 is exact)
Durations == {1000, 3000}

\* Lengths of the combined audio file in milliseconds
AudioDurations == {2000, 5000}

\* The length of the audio file where two calls are compared
PairedAudioDurations == {2000}

----------------------------------------------------------------------------
(* Paths and file contents *)

Path(dir, kind, n) == [dir |-> dir, kind |-> kind, n |-> n]

NoPath == Path("", "none", 0)

ImagePath(k) == Path("in", "image", k)

AudioPath == Path("in", "audio", 0)

SubtitlePath == Path("in", "subtitle", 0)

InputFiles == {ImagePath(1), ImagePath(2), AudioPath, SubtitlePath}

SceneSet == { [scene_number |-> 1, image_path |-> ImagePath(1)],
              [scene_number |-> 3, image_path |-> ImagePath(2)] }

File(kind, scenes, durations, lines, complete, subs, length) ==
    [kind |-> kind, scenes |-> scenes, durations |-> durations,
     lines |-> lines, complete |-> complete, subs |-> subs, length |-> length]

InputFile(path, length) == File(path.kind, <<>>, <<>>, <<>>, TRUE, FALSE, length)

WriteFile(files, path, content) ==
    [q \in (DOMAIN files) \cup {path} |-> IF q = path THEN content ELSE files[q]]

RemoveFiles(files, paths) ==
    [q \in (DOMAIN files) \ paths |-> files[q]]

Range(s) == {s[k] : k \in 1..Len(s)}

SeqsUpTo(S, n) == UNION {[1..k -> S] : k \in 0..n}

Min(a, b) == IF a <= b THEN a ELSE b

Max(a, b) == IF a >= b THEN a ELSE b

RECURSIVE Sum(_)
Sum(s) == IF s = <<>> THEN 0 ELSE Head(s) + Sum(Tail(s))

RECURSIVE Flatten(_)
Flatten(ss) == IF ss = <<>> THEN <<>> ELSE Head(ss) \o Flatten(Tail(ss))

----------------------------------------------------------------------------
(* Errors, results and history events *)

Err(type, what) == [type |-> type, what |-> what]

NoErr == Err("", "")

NoResult == [video_file |-> NoPath, has_subtitles |-> FALSE,
             scene_count |-> 0, duration |-> 0, total_audio_duration |-> 0,
             timestamp |-> 0]

NoFilter == [fades |-> <<>>, join |-> "", n |-> 0, subtitles |-> FALSE]

NoCmd == [tool |-> "", batch_num |-> 0, images |-> <<>>, durations |-> <<>>,
          inputs |-> <<>>, filter |-> NoFilter,
          input |-> NoPath, audio |-> NoPath, vcodec |-> "", shortest |-> FALSE,
          output |-> NoPath]

Event(ev, path, cmd, outcome) ==
    [ev |-> ev, path |-> path, cmd |-> cmd, outcome |-> outcome]

IsInvoke(e) == e.ev = "invoke"

Invocations(t) == SelectSeq(t, IsInvoke)

UnlinkEvents(paths) ==
    [k \in 1..Len(paths) |-> Event("unlink", paths[k], NoCmd, "")]

Finished(p) == pc[p] \in {"returned", "raised"}


\* The state of BedtimeHistoryPipeline.run: its position, the stage calls made
\* so far with their outcomes, its locals and the dictionary it returned
NoPipeline == [pc |-> "absent", prompt |-> "", calls |-> <<>>, thumbnail_file |-> FALSE,
               error |-> NoErr, success |-> FALSE, metadata_timestamp |-> 0,
               metadata_file |-> NoPath, writes |-> <<>>]

\* One invocation of the function wrapped by retry_with_backoff: the loop index,
\* how it ended, and the value it returned or the exception it raised
NoAttempt == [attempt |-> -1, outcome |-> "", tag |-> ""]

\* The state of one call of the wrapper of retry_with_backoff: its parameters,
\* the loop variable, the invocations and sleeps so far, and how it ended
NoRetry == [pc |-> "absent", max_retries |-> 0, base_delay |-> 0, max_delay |-> 0,
            attempt |-> 0, calls |-> <<>>, sleeps |-> <<>>, returned |-> "",
            raised |-> NoAttempt]

\* The worker threads of the image generator's pool
Workers == {"w1", "w2"}

\* A worker's position in the wrapper of rate_limiter and its locals
NoWorker == [pc |-> "idle", current_time |-> 0, wake |-> 0, calls |-> 0]

\* The state of one function wrapped by rate_limiter: the period, the time in
\* seconds, the shared cell last_called[0], the workers, and the starts of the
\* wrapped function
NoLimiter == [pc |-> "absent", period |-> 0, now |-> 0, last_called |-> 0,
              worker |-> [w \in Workers |-> NoWorker], starts |-> <<>>]

\* The state of one call of generate_bedtime_images: the input scenes by their
\* scene numbers, batch_size (= max_workers), the loop variable, the futures of
\* the batch in flight, the inputs in the order their workers finished, and the
\* list built so far
NoGeneration == [pc |-> "absent", scenes |-> <<>>, batch_size |-> 0, i |-> 0,
                 futures |-> <<>>, completed |-> <<>>, results |-> <<>>]

\* One call of generate_single_video: the prompt it selected ("" for none), how
\* the pipeline ended, the lines of the progress file before and after, and
\* whether mark_as_processed was called
NoRun == [prompt |-> "", pipeline |-> "", before |-> <<>>, after |-> <<>>,
          marked |-> FALSE]

\* The state of a SingleVideoGenerator over its calls: the stems of the files of
\* the prompts directory, the lines of prompt_progress.txt (none when the file
\* does not exist), the position in the current call, and the calls so far
NoProgress == [pc |-> "absent", prompts |-> {}, file |-> <<>>, exists |-> FALSE,
               current |-> NoRun, runs |-> <<>>]

\* What the calls not under study leave alone
utilVars == <<retry, limiter, generation, progress>>

----------------------------------------------------------------------------
(* The pure pieces of the code *)

\* Python's s[lo:hi] for 0 <= lo <= hi: 0-based, hi exclusive, clamped to len(s)
PySlice(s, lo, hi) == SubSeq(s, lo + 1, Min(hi, Len(s)))

\* line 298: batch_images = images[i:i+self.batch_size]
BatchImages(images, idx, batch_size) == PySlice(images, idx, idx + batch_size)

\* the durations sliced by the batch number instead of the loop index
BatchDurations_ByBatch(scene_durations, idx, batch_size) ==
    PySlice(scene_durations, idx \div batch_size, (idx \div batch_size) + batch_size)

\* line 299: batch_durations = scene_durations[i:i+self.batch_size]
BatchDurations(scene_durations, idx, batch_size) ==
    PySlice(scene_durations, idx, idx + batch_size)

\* a 0-based batch number
BatchNum_ZeroBased(idx, batch_size) == idx \div batch_size

\* line 300: batch_num = i // self.batch_size + 1
BatchNum(idx, batch_size) == (idx \div batch_size) + 1

\* line 297: the next value of range(0, len(images), self.batch_size)
NextIndex(idx, batch_size) == idx + batch_size

\* clips named in one fixed directory instead of the creator's output_dir
IntermediatePath_FixedDir(dir, batch_num) == Path("out1", "intermediate", batch_num)

\* clips named by the time of the encode as well
IntermediatePath_Stamped(dir, batch_num) == Path(dir, "intermediate", batch_num + clock)

\* lines 138-139: output_dir / f"intermediate_{batch_num}.mp4"
IntermediatePath(dir, batch_num) == Path(dir, "intermediate", batch_num)

\* lines 214-215: output_dir / "bedtime_video_{timestamp}.mp4"
VideoPath(dir, timestamp) == Path(dir, "video", timestamp)

\* line 218: output_dir / f"concat_{timestamp}.txt"
ConcatPath(dir, timestamp) == Path(dir, "concat", timestamp)

\* the manifest written newest clip first
ManifestLines_Reversed(video_files) ==
    [k \in 1..Len(video_files) |->
        [directive |-> "file", path |-> video_files[Len(video_files) + 1 - k]]]

\* lines 219-221: one line "file '<path>'" per element of video_files, in order
ManifestLines(video_files) ==
    [k \in 1..Len(video_files) |-> [directive |-> "file", path |-> video_files[k]]]

\* a mux that never takes the subtitle branch
BurnSubtitles_Never(sub, files) == FALSE

\* line 233: if subtitle_path and subtitle_path.exists()
BurnSubtitles(sub, files) == sub # NoPath /\ sub \in DOMAIN files

\* the checks without the image loop of lines 389-392
ValidationError_NoImageCheck(a, files) ==
    IF Len(a.images) # Len(a.scene_durations)
    THEN Err("ValueError", "count")
    ELSE IF a.final_audio_path \notin DOMAIN files
    THEN Err("FileNotFoundError", "audio")
    ELSE NoErr

\* the checks without the audio check of lines 394-395
ValidationError_NoAudioCheck(a, files) ==
    IF Len(a.images) # Len(a.scene_durations)
    THEN Err("ValueError", "count")
    ELSE IF \E k \in 1..Len(a.images) : a.images[k].image_path \notin DOMAIN files
    THEN Err("FileNotFoundError", "image")
    ELSE NoErr

\* lines 386-395: the checks of process_bedtime_video, in order; NoErr when all pass
ValidationError(a, files) ==
    IF Len(a.images) # Len(a.scene_durations)
    THEN Err("ValueError", "count")
    ELSE IF \E k \in 1..Len(a.images) : a.images[k].image_path \notin DOMAIN files
    THEN Err("FileNotFoundError", "image")
    ELSE IF a.final_audio_path \notin DOMAIN files
    THEN Err("FileNotFoundError", "audio")
    ELSE NoErr

\* the warning without the reset of line 399
CheckedSubtitle_NoReset(sub, files) == sub

\* lines 397-399: a subtitle path that does not exist is replaced by None
CheckedSubtitle(sub, files) ==
    IF sub # NoPath /\ sub \notin DOMAIN files THEN NoPath ELSE sub

\* a handler that re-raises and removes nothing
CleanupTargets_None(videos, files) == <<>>

\* a cleanup that misses the last clip of the list
CleanupTargets_SkipLast(videos, files) ==
    SelectSeq(SubSeq(videos, 1, Len(videos) - 1), LAMBDA v : v \in DOMAIN files)

\* lines 312-314, 326-328, 334-336: for video in intermediate_videos:
\* if video.exists(): video.unlink()
CleanupTargets(videos, files) ==
    SelectSeq(videos, LAMBDA v : v \in DOMAIN files)

\* every image held for the duration of the first one
PrepareImageInputs_FirstDuration(images, scene_durations) ==
    [k \in 1..Min(Len(images), Len(scene_durations)) |->
        [t |-> scene_durations[1], i |-> images[k].image_path]]

\* lines 59-67: for (image, duration) in zip(images, scene_durations):
\* "-loop 1 -t <duration> -i <image_path>"
PrepareImageInputs(images, scene_durations) ==
    [k \in 1..Min(Len(images), Len(scene_durations)) |->
        [t |-> scene_durations[k], i |-> images[k].image_path]]

\* line 95: the 0.5 of min(0.5, duration / 4), in milliseconds
MaxFade == 500

\* a fade of a quarter of the scene without the cap
FadeDuration_NoCap(duration) == duration \div 4

\* line 95: fade_duration = min(0.5, duration / 4)
FadeDuration(duration) == Min(MaxFade, duration \div 4)

\* lines 97-100: fade=t=in:st=0:d=<fade>, fade=t=out:st=<duration - fade>:d=<fade>
Fade(duration) ==
    [in_st |-> 0, in_d |-> FadeDuration(duration),
     out_st |-> duration - FadeDuration(duration), out_d |-> FadeDuration(duration)]

\* a filter graph that joins with concat whatever the number of images
CreateVideoFilter_AlwaysConcat(images, scene_durations, sub, files) ==
    [fades |-> [k \in 1..Len(images) |-> Fade(scene_durations[k])],
     join |-> "concat",
     n |-> Len(images),
     subtitles |-> sub # NoPath /\ sub \in DOMAIN files]

\* lines 82-119: the filter graph: one fade pair per image, then concat of the
\* faded streams (copy for a single one), then the subtitle filter or copy
CreateVideoFilter(images, scene_durations, sub, files) ==
    [fades |-> [k \in 1..Len(images) |-> Fade(scene_durations[k])],
     join |-> IF Len(images) > 1 THEN "concat" ELSE "copy",
     n |-> Len(images),
     subtitles |-> sub # NoPath /\ sub \in DOMAIN files]

\* lines 142-178: the ffmpeg command of _create_intermediate_video
BatchCmd(images, durations, batch_num, out) ==
    [tool |-> "ffmpeg-images", batch_num |-> batch_num, images |-> images,
     durations |-> durations,
     inputs |-> PrepareImageInputs(images, durations),
     filter |-> CreateVideoFilter(images, durations, NoPath, <<>>),
     input |-> NoPath, audio |-> NoPath,
     vcodec |-> "encode", shortest |-> FALSE, output |-> out]

\* the mux command without -shortest
MuxCmd_NoShortest(manifest, audio, burn, out) ==
    [tool |-> "ffmpeg-concat", batch_num |-> 0, images |-> <<>>, durations |-> <<>>,
     inputs |-> <<>>, filter |-> NoFilter,
     input |-> manifest, audio |-> audio,
     vcodec |-> IF burn THEN "subtitles" ELSE "copy", shortest |-> FALSE,
     output |-> out]

\* lines 224-254: the ffmpeg command of _combine_videos
MuxCmd(manifest, audio, burn, out) ==
    [tool |-> "ffmpeg-concat", batch_num |-> 0, images |-> <<>>, durations |-> <<>>,
     inputs |-> <<>>, filter |-> NoFilter,
     input |-> manifest, audio |-> audio,
     vcodec |-> IF burn THEN "subtitles" ELSE "copy", shortest |-> TRUE,
     output |-> out]

\* a cleanup after the mux that removes the audio as well
UnlinkedAfterMux_WithAudio(cmd) == <<cmd.input, cmd.audio>>

\* lines 265-268: after a successful mux, concat_file.unlink()
UnlinkedAfterMux(cmd) == <<cmd.input>>

\* lines 348-354: the ffprobe command of _get_video_duration
ProbeCmd(video) ==
    [tool |-> "ffprobe", batch_num |-> 0, images |-> <<>>, durations |-> <<>>,
     inputs |-> <<>>, filter |-> NoFilter,
     input |-> video, audio |-> NoPath, vcodec |-> "", shortest |-> FALSE,
     output |-> NoPath]

----------------------------------------------------------------------------
(* The external tools *)

\* What ffmpeg reads through the concat demuxer: the clips the manifest names
ManifestClips(files, manifest) ==
    [k \in 1..Len(files[manifest].lines) |-> files[manifest].lines[k].path]

\* ffmpeg can succeed on a batch only when the batch has an image and all exist
BatchEncodable(images, files) ==
    /\ Len(images) > 0
    /\ \A k \in 1..Len(images) : images[k].image_path \in DOMAIN files

\* ffmpeg opens its inputs before it creates its output: a failed mux can leave
\* a partial output only when the manifest names a clip and the audio exists
MuxOpensInputs(cmd, files) ==
    /\ cmd.input \in DOMAIN files
    /\ Len(files[cmd.input].lines) > 0
    /\ cmd.audio \in DOMAIN files

\* ffmpeg can succeed on the mux only when the manifest names at least one clip,
\* every clip it names is a complete file, and the audio (and subtitle) exist
Muxable(cmd, sub, files) ==
    /\ cmd.input \in DOMAIN files
    /\ Len(files[cmd.input].lines) > 0
    /\ \A k \in 1..Len(files[cmd.input].lines) :
          LET c == files[cmd.input].lines[k].path
          IN c \in DOMAIN files /\ files[c].kind = "clip" /\ files[c].complete
    /\ cmd.audio \in DOMAIN files
    /\ (cmd.vcodec = "subtitles" => sub \in DOMAIN files)

\* The outcomes of one tool invocation of call p.  A call that repeats another
\* call's environment gets that call's outcome for its k-th invocation.
ToolOutcomes(p, canSucceed, canLeavePartial) ==
    LET free == (IF canSucceed THEN {"ok"} ELSE {}) \cup {"fail"}
                \cup (IF canLeavePartial THEN {"partial"} ELSE {})
        k == Len(Invocations(trace[p])) + 1
        src == IF replayOf[p] = "" THEN <<>> ELSE Invocations(trace[replayOf[p]])
    IN IF k <= Len(src) /\ src[k].outcome \in free THEN {src[k].outcome} ELSE free

\* The content ffmpeg leaves at a batch's output path: every looped image
\* input is held for its -t value and the filter graph joins the inputs, so a
\* complete clip lasts the sum of the -t values (a partial file has no usable length)
ClipFile(images, cmd, complete) ==
    LET holds == [k \in 1..Len(cmd.inputs) |-> cmd.inputs[k].t]
    IN File("clip", images, holds, <<>>, complete, FALSE,
            IF complete THEN Sum(holds) ELSE 0)

\* The length of a muxed file: with -shortest the output ends with its shorter
\* stream, without it with its longer one
MuxedLength(cmd, visual, audio) ==
    IF cmd.shortest THEN Min(visual, audio) ELSE Max(visual, audio)

\* The content ffmpeg leaves at the final output path: the clips of the
\* manifest in order as the video stream, the audio file as the audio stream
FinalFile(files, cmd, complete) ==
    LET clips == ManifestClips(files, cmd.input)
        visual == Sum([k \in 1..Len(clips) |->
                         IF clips[k] \in DOMAIN files THEN files[clips[k]].length ELSE 0])
    IN File("video",
            Flatten([k \in 1..Len(clips) |->
                       IF clips[k] \in DOMAIN files THEN files[clips[k]].scenes ELSE <<>>]),
            Flatten([k \in 1..Len(clips) |->
                       IF clips[k] \in DOMAIN files THEN files[clips[k]].durations ELSE <<>>]),
            <<>>, complete, cmd.vcodec = "subtitles",
            IF complete THEN MuxedLength(cmd, visual, files[cmd.audio].length) ELSE 0)

\* get_timestamp (base.py lines 22-24): the clock never runs backwards.  A call
\* that repeats another call's environment reads the times that call read.
IsClockRead(e) == e.ev = "time"

ClockReads(t) == SelectSeq(t, IsClockRead)

Timestamps(p) ==
    LET k == Len(ClockReads(trace[p])) + 1
        src == IF replayOf[p] = "" THEN <<>> ELSE ClockReads(trace[replayOf[p]])
    IN IF k <= Len(src) THEN {src[k].path.n} ELSE clock..MaxClock

ClockRead(timestamp) == Event("time", Path("", "time", timestamp), NoCmd, "")

Advance(now, timestamp) == IF timestamp > now THEN timestamp ELSE now

----------------------------------------------------------------------------
(* The steps of one call of process_bedtime_video *)

Set(f, p, v) == [f EXCEPT ![p] = v]

Log(p, events) == trace' = [trace EXCEPT ![p] = @ \o events]

\* lines 383-399: the input checks; the first failing check raises
Validate(p) ==
    /\ pc[p] = "call"
    /\ replayOf[p] # "" =>
          \A q \in Procs \ {p} : pc[q] \in {"absent", "returned", "raised"}
    /\ LET e == ValidationError(args[p], fs)
           sub == CheckedSubtitle(args[p].subtitle_path, fs)
       IN IF e # NoErr
          THEN /\ pc' = Set(pc, p, "raised")
               /\ err' = Set(err, p, e)
               /\ UNCHANGED <<subtitle_path, trace>>
          ELSE /\ pc' = Set(pc, p, "loop")
               /\ subtitle_path' = Set(subtitle_path, p, sub)
               /\ Log(p, IF sub # args[p].subtitle_path
                         THEN <<Event("warning", args[p].subtitle_path, NoCmd, "")>>
                         ELSE <<>>)
               /\ err' = err
    /\ UNCHANGED <<args, i, intermediate_videos, concat_file, output_path,
                   result, fs, clock, replayOf, pipeline,
                   retry, limiter, generation, progress>>

\* a loop that logs a failed batch and goes on with the next one
EncodeBatch_SkipFailed(p) ==
    /\ pc[p] = "loop"
    /\ i[p] < Len(args[p].images)
    /\ LET bs == args[p].batch_size
           batch_images == BatchImages(args[p].images, i[p], bs)
           batch_durations == BatchDurations(args[p].scene_durations, i[p], bs)
           batch_num == BatchNum(i[p], bs)
           out == IntermediatePath(args[p].output_dir, batch_num)
           cmd == BatchCmd(batch_images, batch_durations, batch_num, out)
       IN \E o \in ToolOutcomes(p, BatchEncodable(batch_images, fs),
                                  BatchEncodable(batch_images, fs)) :
            /\ Log(p, <<Event("invoke", out, cmd, o)>>)
            /\ IF o = "ok"
               THEN /\ fs' = WriteFile(fs, out, ClipFile(batch_images, cmd, TRUE))
                    /\ intermediate_videos' = Set(intermediate_videos, p,
                                                  Append(intermediate_videos[p], out))
                    /\ i' = Set(i, p, NextIndex(i[p], bs))
                    /\ pc' = pc
               ELSE /\ fs' = IF o = "partial"
                             THEN WriteFile(fs, out,
                                            ClipFile(batch_images, cmd, FALSE))
                             ELSE fs
                    /\ i' = Set(i, p, NextIndex(i[p], bs))
                    /\ UNCHANGED <<intermediate_videos, pc>>
    /\ UNCHANGED <<args, subtitle_path, concat_file, output_path, err, result,
                   clock, replayOf, pipeline,
                   retry, limiter, generation, progress>>

\* a loop that submits a failed batch again
EncodeBatch_Retry(p) ==
    /\ pc[p] = "loop"
    /\ i[p] < Len(args[p].images)
    /\ LET bs == args[p].batch_size
           batch_images == BatchImages(args[p].images, i[p], bs)
           batch_durations == BatchDurations(args[p].scene_durations, i[p], bs)
           batch_num == BatchNum(i[p], bs)
           out == IntermediatePath(args[p].output_dir, batch_num)
           cmd == BatchCmd(batch_images, batch_durations, batch_num, out)
       IN \E o \in ToolOutcomes(p, BatchEncodable(batch_images, fs),
                                  BatchEncodable(batch_images, fs)) :
            /\ Log(p, <<Event("invoke", out, cmd, o)>>)
            /\ IF o = "ok"
               THEN /\ fs' = WriteFile(fs, out, ClipFile(batch_images, cmd, TRUE))
                    /\ intermediate_videos' = Set(intermediate_videos, p,
                                                  Append(intermediate_videos[p], out))
                    /\ i' = Set(i, p, NextIndex(i[p], bs))
                    /\ pc' = pc
               ELSE /\ fs' = IF o = "partial"
                             THEN WriteFile(fs, out,
                                            ClipFile(batch_images, cmd, FALSE))
                             ELSE fs
                    /\ UNCHANGED <<intermediate_videos, i, pc>>
    /\ UNCHANGED <<args, subtitle_path, concat_file, output_path, err, result,
                   clock, replayOf, pipeline,
                   retry, limiter, generation, progress>>

\* lines 297-308 with _create_intermediate_video (lines 135-194): one pass of the loop
EncodeBatch(p) ==
    /\ pc[p] = "loop"
    /\ i[p] < Len(args[p].images)
    /\ LET bs == args[p].batch_size
           batch_images == BatchImages(args[p].images, i[p], bs)
           batch_durations == BatchDurations(args[p].scene_durations, i[p], bs)
           batch_num == BatchNum(i[p], bs)
           out == IntermediatePath(args[p].output_dir, batch_num)
           cmd == BatchCmd(batch_images, batch_durations, batch_num, out)
       IN \E o \in ToolOutcomes(p, BatchEncodable(batch_images, fs),
                                  BatchEncodable(batch_images, fs)) :
            /\ Log(p, <<Event("invoke", out, cmd, o)>>)
            /\ IF o = "ok"
               THEN /\ fs' = WriteFile(fs, out, ClipFile(batch_images, cmd, TRUE))
                    /\ intermediate_videos' = Set(intermediate_videos, p,
                                                  Append(intermediate_videos[p], out))
                    /\ i' = Set(i, p, NextIndex(i[p], bs))
                    /\ pc' = pc
               ELSE /\ fs' = IF o = "partial"
                             THEN WriteFile(fs, out,
                                            ClipFile(batch_images, cmd, FALSE))
                             ELSE fs
                    /\ pc' = Set(pc, p, "batch_failed")
                    /\ UNCHANGED <<intermediate_videos, i>>
    /\ UNCHANGED <<args, subtitle_path, concat_file, output_path, err, result,
                   clock, replayOf, pipeline,
                   retry, limiter, generation, progress>>

\* lines 309-315: the handler of a failed batch removes the clips of the list and re-raises
CleanupFailedBatch(p) ==
    /\ pc[p] = "batch_failed"
    /\ LET gone == CleanupTargets(intermediate_videos[p], fs)
       IN /\ fs' = RemoveFiles(fs, Range(gone))
          /\ Log(p, UnlinkEvents(gone))
    /\ pc' = Set(pc, p, "raised")
    /\ err' = Set(err, p, Err("RuntimeError", "batch"))
    /\ UNCHANGED <<args, subtitle_path, i, intermediate_videos, concat_file,
                   output_path, result, clock, replayOf, pipeline,
                   retry, limiter, generation, progress>>

\* lines 317-319 and 210-221: the loop is over; _combine_videos names its files
\* by the timestamp and writes the concat manifest
WriteManifest(p) ==
    /\ pc[p] = "loop"
    /\ i[p] >= Len(args[p].images)
    /\ \E timestamp \in Timestamps(p) :
         LET manifest == ConcatPath(args[p].output_dir, timestamp)
         IN /\ clock' = Advance(clock, timestamp)
            /\ output_path' = Set(output_path, p, VideoPath(args[p].output_dir, timestamp))
            /\ concat_file' = Set(concat_file, p, manifest)
            /\ fs' = WriteFile(fs, manifest,
                               File("manifest", <<>>, <<>>,
                                    ManifestLines(intermediate_videos[p]), TRUE, FALSE, 0))
            /\ Log(p, <<ClockRead(timestamp), Event("write", manifest, NoCmd, "")>>)
    /\ pc' = Set(pc, p, "mux")
    /\ UNCHANGED <<args, subtitle_path, i, intermediate_videos, err, result, replayOf, pipeline,
                   retry, limiter, generation, progress>>

\* lines 223-274: the mux; on success the manifest is removed, on failure
\* _combine_videos raises RuntimeError
RunMux(p) ==
    /\ pc[p] = "mux"
    /\ LET burn == BurnSubtitles(subtitle_path[p], fs)
           cmd == MuxCmd(concat_file[p], args[p].final_audio_path, burn, output_path[p])
       IN \E o \in ToolOutcomes(p, Muxable(cmd, subtitle_path[p], fs),
                                  MuxOpensInputs(cmd, fs)) :
            /\ IF o = "ok"
               THEN /\ fs' = RemoveFiles(WriteFile(fs, output_path[p],
                                                   FinalFile(fs, cmd, TRUE)),
                                         Range(UnlinkedAfterMux(cmd)))
                    /\ Log(p, <<Event("invoke", output_path[p], cmd, o)>>
                               \o UnlinkEvents(UnlinkedAfterMux(cmd)))
                    /\ pc' = Set(pc, p, "muxed")
               ELSE /\ fs' = IF o = "partial"
                             THEN WriteFile(fs, output_path[p],
                                            FinalFile(fs, cmd, FALSE))
                             ELSE fs
                    /\ Log(p, <<Event("invoke", output_path[p], cmd, o)>>)
                    /\ pc' = Set(pc, p, "mux_failed")
    /\ UNCHANGED <<args, subtitle_path, i, intermediate_videos, concat_file,
                   output_path, err, result, clock, replayOf, pipeline,
                   retry, limiter, generation, progress>>

\* lines 325-330: after a successful mux the clips of the list are removed
CleanupIntermediates(p) ==
    /\ pc[p] = "muxed"
    /\ LET gone == CleanupTargets(intermediate_videos[p], fs)
       IN /\ fs' = RemoveFiles(fs, Range(gone))
          /\ Log(p, UnlinkEvents(gone))
    /\ pc' = Set(pc, p, "probe")
    /\ UNCHANGED <<args, subtitle_path, i, intermediate_videos, concat_file,
                   output_path, err, result, clock, replayOf, pipeline,
                   retry, limiter, generation, progress>>

\* a handler of a failed mux that swallows the error and returns the result
CleanupAfterMuxFailure_Swallow(p) ==
    /\ pc[p] = "mux_failed"
    /\ pc' = Set(pc, p, "returned")
    /\ result' = Set(result, p, [NoResult EXCEPT !.video_file = output_path[p]])
    /\ UNCHANGED <<args, subtitle_path, i, intermediate_videos, concat_file,
                   output_path, err, trace, fs, clock, replayOf, pipeline,
                   retry, limiter, generation, progress>>

\* lines 331-337: the handler of a failed mux removes the clips of the list and re-raises
CleanupAfterMuxFailure(p) ==
    /\ pc[p] = "mux_failed"
    /\ LET gone == CleanupTargets(intermediate_videos[p], fs)
       IN /\ fs' = RemoveFiles(fs, Range(gone))
          /\ Log(p, UnlinkEvents(gone))
    /\ pc' = Set(pc, p, "raised")
    /\ err' = Set(err, p, Err("RuntimeError", "mux"))
    /\ UNCHANGED <<args, subtitle_path, i, intermediate_videos, concat_file,
                   output_path, result, clock, replayOf, pipeline,
                   retry, limiter, generation, progress>>

\* lines 409-437 with _get_video_duration (lines 348-363): ffprobe, then the result
GetVideoDuration(p) ==
    /\ pc[p] = "probe"
    /\ LET probeable == output_path[p] \in DOMAIN fs /\ fs[output_path[p]].complete
       IN \E o \in ToolOutcomes(p, probeable, FALSE) :
            IF o = "ok"
            THEN \E timestamp \in Timestamps(p) :
                   /\ Log(p, <<Event("invoke", NoPath, ProbeCmd(output_path[p]), o),
                               ClockRead(timestamp)>>)
                   /\ clock' = Advance(clock, timestamp)
                   /\ result' = Set(result, p,
                                    [video_file |-> output_path[p],
                                     has_subtitles |-> subtitle_path[p] # NoPath,
                                     scene_count |-> Len(args[p].images),
                                     duration |-> fs[output_path[p]].length,
                                     total_audio_duration |->
                                         Sum(args[p].scene_durations),
                                     timestamp |-> timestamp])
                   /\ pc' = Set(pc, p, "returned")
                   /\ err' = err
            ELSE /\ Log(p, <<Event("invoke", NoPath, ProbeCmd(output_path[p]), o)>>)
                 /\ pc' = Set(pc, p, "raised")
                 /\ err' = Set(err, p, Err("CalledProcessError", "probe"))
                 /\ UNCHANGED <<result, clock>>
    /\ UNCHANGED <<args, subtitle_path, i, intermediate_videos, concat_file,
                   output_path, fs, replayOf, pipeline,
                   retry, limiter, generation, progress>>

Next ==
    \E p \in Procs :
        \/ Validate(p)
        \/ EncodeBatch(p)
        \/ CleanupFailedBatch(p)
        \/ WriteManifest(p)
        \/ RunMux(p)
        \/ CleanupIntermediates(p)
        \/ CleanupAfterMuxFailure(p)
        \/ GetVideoDuration(p)

----------------------------------------------------------------------------
(* Initial states *)

NoArgs == [images |-> <<>>, scene_durations |-> <<>>, final_audio_path |-> NoPath,
           subtitle_path |-> NoPath, batch_size |-> 1, output_dir |-> ""]

\* The arguments of a call: any scene list and duration list up to maxScenes,
\* any batch size from 1, with or without a subtitle path
CallArgs(dir, maxScenes, maxBatchSize) ==
    [images : SeqsUpTo(SceneSet, maxScenes),
     scene_durations : SeqsUpTo(Durations, maxScenes),
     final_audio_path : {AudioPath},
     subtitle_path : {NoPath, SubtitlePath},
     batch_size : 1..maxBatchSize,
     output_dir : {dir}]

\* Any subset of the input files exists; the output directories are empty
InitCommon(audioLengths) ==
    /\ pipeline = NoPipeline
    /\ retry = NoRetry
    /\ limiter = NoLimiter
    /\ generation = NoGeneration
    /\ progress = NoProgress
    /\ \E present \in SUBSET InputFiles : \E length \in audioLengths :
         fs = [q \in present |-> InputFile(q, IF q = AudioPath THEN length ELSE 0)]
    /\ clock = 1
    /\ subtitle_path = [p \in Procs |-> NoPath]
    /\ i = [p \in Procs |-> 0]
    /\ intermediate_videos = [p \in Procs |-> <<>>]
    /\ concat_file = [p \in Procs |-> NoPath]
    /\ output_path = [p \in Procs |-> NoPath]
    /\ err = [p \in Procs |-> NoErr]
    /\ result = [p \in Procs |-> NoResult]
    /\ trace = [p \in Procs |-> <<>>]

\* One call, A
Init ==
    /\ InitCommon(AudioDurations)
    /\ \E a \in CallArgs("out1", MaxScenes, MaxBatchSize) : args = [p \in Procs |-> IF p = "A" THEN a ELSE NoArgs]
    /\ pc = [p \in Procs |-> IF p = "A" THEN "call" ELSE "absent"]
    /\ replayOf = [p \in Procs |-> ""]

Spec == Init /\ [][Next]_vars

\* Call A, then call B in another directory with the same arguments up to the
\* subtitle path, the tools behaving for B as they did for A
InitReplay ==
    /\ InitCommon(PairedAudioDurations)
    /\ \E a \in CallArgs("out1", MaxReplayScenes, MaxBatchSize) : \E sub \in {NoPath, SubtitlePath} :
         args = [p \in Procs |->
                   IF p = "A" THEN a
                   ELSE IF p = "B"
                   THEN [a EXCEPT !.output_dir = "out2", !.subtitle_path = sub]
                   ELSE NoArgs]
    /\ pc = [p \in Procs |-> IF p = "C" THEN "absent" ELSE "call"]
    /\ replayOf = [p \in Procs |-> IF p = "B" THEN "A" ELSE ""]

SpecReplay == InitReplay /\ [][Next]_vars

\* Calls A and B at the same time in different directories, their steps
\* interleaved and the tools behaving independently for each; then call C alone
\* in a third directory with A's arguments, the tools behaving as they did for A
InitConcurrent ==
    /\ InitCommon(PairedAudioDurations)
    /\ \E a \in CallArgs("out1", MaxConcurrentScenes, MaxConcurrentBatchSize) :
         args = [p \in Procs |->
                   [a EXCEPT !.output_dir =
                                 IF p = "A" THEN "out1" ELSE IF p = "B" THEN "out2" ELSE "out3"]]
    /\ pc = [p \in Procs |-> "call"]
    /\ replayOf = [p \in Procs |-> IF p = "C" THEN "A" ELSE ""]

SpecConcurrent == InitConcurrent /\ [][Next]_vars

\* The scene of SceneSet that is not s
OtherScene(s) == CHOOSE t \in SceneSet : t # s

\* Calls A and B at the same time on creators with the same output directory,
\* their steps interleaved and the tools behaving independently for each; B has
\* A's arguments with every scene replaced by the other scene
InitShared ==
    /\ InitCommon(PairedAudioDurations)
    /\ \E a \in CallArgs("out1", MaxSharedScenes, MaxSharedBatchSize) :
         args = [p \in Procs |->
                   IF p = "A" THEN a
                   ELSE IF p = "B"
                   THEN [a EXCEPT !.images = [k \in 1..Len(a.images) |->
                                                 OtherScene(a.images[k])]]
                   ELSE NoArgs]
    /\ pc = [p \in Procs |-> IF p = "C" THEN "absent" ELSE "call"]
    /\ replayOf = [p \in Procs |-> ""]

SpecShared == InitShared /\ [][Next]_vars

----------------------------------------------------------------------------
(* BedtimeHistoryPipeline.run (bedtime_history_pipeline.py lines 46-197) *)

Prompts == {"rome", "egypt"}

\* What a stage call can do: return the dictionary the pipeline expects, return
\* nothing (None, or for the thumbnail a dictionary with success False), return a
\* dictionary without the key the pipeline reads, or raise
StageOutcomes == {"ok", "none", "missing_key", "raise"}

\* lines 62-141: the stage calls of run in program order
StageOrder == <<"story", "thumbnail", "images", "audio", "subtitles", "video", "upload">>

StageIndex(stage) == CHOOSE k \in 1..Len(StageOrder) : StageOrder[k] = stage

\* the stage after `stage`; after the upload the metadata is saved (line 143)
NextStage(stage) ==
    IF StageIndex(stage) < Len(StageOrder) THEN StageOrder[StageIndex(stage) + 1] ELSE "save"

\* a run that reads no key of the upload result: a dictionary with success
\* False passes as an upload
StageError_UploadKeyUnread(stage, outcome) ==
    IF outcome = "ok" THEN NoErr
    ELSE IF outcome = "raise" THEN Err("Exception", stage)
    ELSE IF stage = "thumbnail" THEN NoErr
    ELSE IF outcome = "none" THEN Err("RuntimeError", stage)
    ELSE IF stage \in {"story", "audio", "video"} THEN Err("RuntimeError", stage)
    ELSE IF stage = "upload" THEN NoErr
    ELSE Err("KeyError", stage)

\* a run that checks no stage result
StageError_Unchecked(stage, outcome) == NoErr

\* lines 64-65, 77-79, 88-89, 97-98, 107-108, 121-122, 136-137: the check after
\* each stage call.  A stage that raises fails the run; a falsy result raises
\* RuntimeError except for the thumbnail (line 78: warning, no thumbnail); a
\* result without a checked key raises RuntimeError, without a key that is
\* only read (lines 68, 91, 110, 139) KeyError
StageError(stage, outcome) ==
    IF outcome = "ok" THEN NoErr
    ELSE IF outcome = "raise" THEN Err("Exception", stage)
    ELSE IF stage = "thumbnail" THEN NoErr
    ELSE IF outcome = "none" THEN Err("RuntimeError", stage)
    ELSE IF stage \in {"story", "audio", "video"} THEN Err("RuntimeError", stage)
    ELSE Err("KeyError", stage)

\* lines 156-158 and 184-186: output_dir / FILE_PATTERNS[...].format(timestamp=...)
MetadataPath(kind, timestamp) == Path("default", kind, timestamp)

creatorVars == <<args, pc, subtitle_path, i, intermediate_videos, concat_file,
                 output_path, err, result, trace, replayOf>>

\* One stage call of run and the check that follows it
StageStep(stage) ==
    /\ pipeline.pc = stage
    /\ \E o \in StageOutcomes :
         LET e == StageError(stage, o)
             called == Append(pipeline.calls, [stage |-> stage, outcome |-> o])
         IN pipeline' =
              IF e # NoErr
              THEN [pipeline EXCEPT !.calls = called, !.error = e, !.pc = "except"]
              ELSE [pipeline EXCEPT !.calls = called, !.pc = NextStage(stage),
                                    !.thumbnail_file =
                                        IF stage = "thumbnail" THEN o = "ok" ELSE @]
    /\ UNCHANGED <<creatorVars, fs, clock, utilVars>>

\* lines 60-71: step 1, story_generator.process(prompt)
GenerateStory == StageStep("story")

\* lines 73-82: step 2, thumbnail_generator.process(story_result)
GenerateThumbnail == StageStep("thumbnail")

\* lines 84-91: step 3, image_generator.process_scenes
GenerateImages == StageStep("images")

\* lines 93-101: step 4, audio_generator.process_scenes
GenerateAudio == StageStep("audio")

\* lines 103-110: step 5, subtitle_generator.process_audio
GenerateSubtitles == StageStep("subtitles")

\* lines 112-125: step 6, video_creator.process_bedtime_video
CreateVideo == StageStep("video")

\* lines 127-141: step 7, youtube_uploader.upload_video_with_thumbnail
UploadVideo == StageStep("upload")

\* What writing a metadata file can do (open, then json.dump): write the
\* record, fail before the file is created, or fail leaving a partial file
WriteOutcomes == {"ok", "raise", "partial"}

\* The file system after one attempt to write a metadata file
MetadataWritten(files, path, kind, o) ==
    IF o = "raise" THEN files
    ELSE WriteFile(files, path, File(kind, <<>>, <<>>, <<>>, o = "ok", FALSE, 0))

\* lines 143-171: the metadata is stamped (line 145), the file is named by a
\* second reading of the clock (line 157) and written (lines 160-161); then run
\* returns success.  A failing write raises inside the try block.
SaveMetadata ==
    /\ pipeline.pc = "save"
    /\ \E stamp \in clock..MaxClock : \E named \in stamp..MaxClock : \E o \in WriteOutcomes :
         LET path == MetadataPath("pipeline_metadata", named)
             written == Append(pipeline.writes, [path |-> path, outcome |-> o])
         IN /\ clock' = named
            /\ fs' = MetadataWritten(fs, path, "pipeline_metadata", o)
            /\ pipeline' =
                 IF o = "ok"
                 THEN [pipeline EXCEPT !.pc = "returned", !.success = TRUE,
                                       !.metadata_timestamp = stamp,
                                       !.metadata_file = path, !.writes = written]
                 ELSE [pipeline EXCEPT !.pc = "except", !.writes = written,
                                       !.error = Err("Exception", "save")]
    /\ UNCHANGED <<creatorVars, utilVars>>

\* lines 173-197: the handler of any exception writes the error metadata
\* (lines 188-189) and returns success False; a failing write leaves run with
\* that exception
HandleFailure ==
    /\ pipeline.pc = "except"
    /\ \E stamp \in clock..MaxClock : \E named \in stamp..MaxClock : \E o \in WriteOutcomes :
         LET path == MetadataPath("pipeline_metadata_error", named)
             written == Append(pipeline.writes, [path |-> path, outcome |-> o])
         IN /\ clock' = named
            /\ fs' = MetadataWritten(fs, path, "pipeline_metadata_error", o)
            /\ pipeline' =
                 IF o = "ok"
                 THEN [pipeline EXCEPT !.pc = "returned", !.success = FALSE,
                                       !.metadata_timestamp = stamp,
                                       !.metadata_file = path, !.writes = written]
                 ELSE [pipeline EXCEPT !.pc = "raised", !.writes = written]
    /\ UNCHANGED <<creatorVars, utilVars>>

NextPipeline ==
    \/ GenerateStory
    \/ GenerateThumbnail
    \/ GenerateImages
    \/ GenerateAudio
    \/ GenerateSubtitles
    \/ CreateVideo
    \/ UploadVideo
    \/ SaveMetadata
    \/ HandleFailure

\* One run of the pipeline on a prompt; no call of the creator outside it
InitPipeline ==
    /\ \E prompt \in Prompts :
         pipeline = [NoPipeline EXCEPT !.pc = "story", !.prompt = prompt]
    /\ fs = [q \in {} |-> InputFile(q, 0)]
    /\ clock = 1
    /\ args = [p \in Procs |-> NoArgs]
    /\ pc = [p \in Procs |-> "absent"]
    /\ subtitle_path = [p \in Procs |-> NoPath]
    /\ i = [p \in Procs |-> 0]
    /\ intermediate_videos = [p \in Procs |-> <<>>]
    /\ concat_file = [p \in Procs |-> NoPath]
    /\ output_path = [p \in Procs |-> NoPath]
    /\ err = [p \in Procs |-> NoErr]
    /\ result = [p \in Procs |-> NoResult]
    /\ trace = [p \in Procs |-> <<>>]
    /\ replayOf = [p \in Procs |-> ""]
    /\ retry = NoRetry
    /\ limiter = NoLimiter
    /\ generation = NoGeneration
    /\ progress = NoProgress

SpecPipeline == InitPipeline /\ [][NextPipeline]_vars

----------------------------------------------------------------------------
(* The decorators of utils.py *)

\* The variables of process_bedtime_video and of run
callVars == <<creatorVars, fs, clock, pipeline>>

\* No call of process_bedtime_video and no run of the pipeline
CallsIdle ==
    /\ pipeline = NoPipeline
    /\ fs = [q \in {} |-> InputFile(q, 0)]
    /\ clock = 1
    /\ args = [p \in Procs |-> NoArgs]
    /\ pc = [p \in Procs |-> "absent"]
    /\ subtitle_path = [p \in Procs |-> NoPath]
    /\ i = [p \in Procs |-> 0]
    /\ intermediate_videos = [p \in Procs |-> <<>>]
    /\ concat_file = [p \in Procs |-> NoPath]
    /\ output_path = [p \in Procs |-> NoPath]
    /\ err = [p \in Procs |-> NoErr]
    /\ result = [p \in Procs |-> NoResult]
    /\ trace = [p \in Procs |-> <<>>]
    /\ replayOf = [p \in Procs |-> ""]

\* How one invocation of the wrapped function can end: it returns, it raises an
\* Exception, or it raises a BaseException the except clause does not catch
AttemptOutcomes == {"return", "exception", "base_exception"}

\* The values the wrapped function returns and the exceptions it raises
Tags == {"x", "y"}

\* Delays in milliseconds
BaseDelays == {1000, 2000}

MaxDelays == {3000}

RECURSIVE Pow2(_)
Pow2(n) == IF n = 0 THEN 1 ELSE 2 * Pow2(n - 1)

\* line 29: delay = min(base_delay * (2 ** attempt), max_delay)
BackoffDelay(base_delay, max_delay, attempt) == Min(base_delay * Pow2(attempt), max_delay)

\* line 30: jitter = random.uniform(0, delay * 0.1), its two ends
Jitters(delay) == {0, delay \div 10}

\* the last attempt's exception is swallowed like the earlier ones
RetryAttempt_SwallowLast ==
    /\ retry.pc = "attempt"
    /\ retry.attempt <= retry.max_retries
    /\ \E o \in AttemptOutcomes : \E t \in Tags :
         LET call == [attempt |-> retry.attempt, outcome |-> o, tag |-> t]
             called == [retry EXCEPT !.calls = Append(@, call)]
         IN IF o = "return"
            THEN retry' = [called EXCEPT !.pc = "returned", !.returned = t]
            ELSE IF o = "base_exception"
            THEN retry' = [called EXCEPT !.pc = "raised", !.raised = call]
            ELSE \E jitter \in Jitters(BackoffDelay(retry.base_delay, retry.max_delay,
                                                     retry.attempt)) :
                   retry' = [called EXCEPT !.pc = "sleep",
                               !.sleeps = Append(@, BackoffDelay(retry.base_delay,
                                                     retry.max_delay, retry.attempt) + jitter)]
    /\ UNCHANGED <<callVars, limiter, generation, progress>>

\* lines 20-32: one iteration of the loop up to the sleep: the wrapped function
\* is invoked; its result is returned, or its Exception is re-raised when this
\* was the last attempt and is followed by a sleep otherwise
RetryAttempt ==
    /\ retry.pc = "attempt"
    /\ retry.attempt <= retry.max_retries
    /\ \E o \in AttemptOutcomes : \E t \in Tags :
         LET call == [attempt |-> retry.attempt, outcome |-> o, tag |-> t]
             called == [retry EXCEPT !.calls = Append(@, call)]
         IN IF o = "return"
            THEN retry' = [called EXCEPT !.pc = "returned", !.returned = t]
            ELSE IF o = "base_exception" \/ retry.attempt = retry.max_retries
            THEN retry' = [called EXCEPT !.pc = "raised", !.raised = call]
            ELSE \E jitter \in Jitters(BackoffDelay(retry.base_delay, retry.max_delay,
                                                     retry.attempt)) :
                   retry' = [called EXCEPT !.pc = "sleep",
                               !.sleeps = Append(@, BackoffDelay(retry.base_delay,
                                                     retry.max_delay, retry.attempt) + jitter)]
    /\ UNCHANGED <<callVars, limiter, generation, progress>>

\* line 34 and the loop head: time.sleep returns, the next iteration starts
RetrySleep ==
    /\ retry.pc = "sleep"
    /\ retry' = [retry EXCEPT !.pc = "attempt", !.attempt = @ + 1]
    /\ UNCHANGED <<callVars, limiter, generation, progress>>

\* line 36: the range is exhausted without a return or a raise
RetryReturnNone ==
    /\ retry.pc = "attempt"
    /\ retry.attempt > retry.max_retries
    /\ retry' = [retry EXCEPT !.pc = "returned", !.returned = "None"]
    /\ UNCHANGED <<callVars, limiter, generation, progress>>

NextRetry == RetryAttempt \/ RetrySleep \/ RetryReturnNone

\* One call of the wrapper; max_retries = -1 makes range(max_retries + 1) empty
InitRetry ==
    /\ CallsIdle
    /\ \E m \in -1..MaxRetries : \E b \in BaseDelays : \E d \in MaxDelays :
         retry = [NoRetry EXCEPT !.pc = "attempt", !.max_retries = m,
                                 !.base_delay = b, !.max_delay = d]
    /\ limiter = NoLimiter
    /\ generation = NoGeneration
    /\ progress = NoProgress

SpecRetry == InitRetry /\ [][NextRetry]_vars

\* bedtime_image_generator.py line 104: @rate_limiter(calls=1, period=6.0)
Period == 6

\* lines 52-58: the worker reads the time and last_called[0] and decides whether
\* to sleep, and for how long
LimiterCall(w) ==
    /\ limiter.pc = "running"
    /\ limiter.worker[w].pc = "idle"
    /\ limiter.worker[w].calls < MaxWrapperCalls
    /\ LET current_time == limiter.now
           time_since_last == current_time - limiter.last_called
       IN limiter' = [limiter EXCEPT !.worker[w] =
              [@ EXCEPT !.current_time = current_time,
                        !.pc = IF time_since_last < limiter.period
                               THEN "sleeping" ELSE "stamp",
                        !.wake = IF time_since_last < limiter.period
                                 THEN current_time + (limiter.period - time_since_last)
                                 ELSE 0]]
    /\ UNCHANGED <<callVars, retry, generation, progress>>

\* line 58: time.sleep returns, no earlier than after sleep_time
LimiterWake(w) ==
    /\ limiter.pc = "running"
    /\ limiter.worker[w].pc = "sleeping"
    /\ limiter.now >= limiter.worker[w].wake
    /\ limiter' = [limiter EXCEPT !.worker[w].pc = "stamp"]
    /\ UNCHANGED <<callVars, retry, generation, progress>>

\* lines 60-61: last_called[0] = time.time() and the wrapped function starts
LimiterInvoke(w) ==
    /\ limiter.pc = "running"
    /\ limiter.worker[w].pc = "stamp"
    /\ limiter' = [limiter EXCEPT
           !.last_called = limiter.now,
           !.starts = Append(@, [worker |-> w, time |-> limiter.now]),
           !.worker[w] = [@ EXCEPT !.pc = "idle", !.calls = @ + 1]]
    /\ UNCHANGED <<callVars, retry, generation, progress>>

\* a second passes
Tick ==
    /\ limiter.pc = "running"
    /\ limiter.now < MaxTime
    /\ limiter' = [limiter EXCEPT !.now = @ + 1]
    /\ UNCHANGED <<callVars, retry, generation, progress>>

NextLimiter ==
    \/ Tick
    \/ \E w \in Workers :
         \/ LimiterCall(w)
         \/ LimiterWake(w)
         \/ LimiterInvoke(w)

\* The decorated function right after its definition: last_called = [0.0]
\* (line 48), and a clock that is far beyond one period
InitLimiter ==
    /\ CallsIdle
    /\ limiter = [NoLimiter EXCEPT !.pc = "running", !.period = Period, !.now = Period]
    /\ retry = NoRetry
    /\ generation = NoGeneration
    /\ progress = NoProgress

SpecLimiter == InitLimiter /\ [][NextLimiter]_vars

----------------------------------------------------------------------------
(* generate_bedtime_images *)

\* The scene numbers of the story
SceneNumbers == {1, 2, 3}

\* lines 174-184: the metadata _generate_single_image returns for a scene
ImageMetadata(scene_number) == [scene_number |-> scene_number]

\* scene_audio_generator.py lines 216-222: one audio entry per scene, in order
SceneAudios(scenes) == [k \in 1..Len(scenes) |-> [scene_number |-> scenes[k]]]

\* the results taken in the order the workers finished
BatchResults_AsCompleted(g) ==
    LET mine == SelectSeq(g.completed, LAMBDA n : n > g.i)
    IN [k \in 1..Len(mine) |-> ImageMetadata(g.scenes[mine[k]])]

\* line 207: [f.result() for f in futures], the futures in submission order
BatchResults(g) ==
    [k \in 1..Len(g.futures) |-> ImageMetadata(g.futures[k].scene)]

\* lines 199-206 and 211-213: the loop head; the next batch is sliced and every
\* scene of it submitted to the pool, or the list is returned
GenSubmitBatch ==
    /\ generation.pc = "submit"
    /\ LET batch == PySlice(generation.scenes, generation.i,
                            generation.i + generation.batch_size)
       IN IF generation.i < Len(generation.scenes)
          THEN generation' = [generation EXCEPT !.pc = "running",
                   !.futures = [k \in 1..Len(batch) |->
                                  [scene |-> batch[k], state |-> "running"]]]
          ELSE generation' = [generation EXCEPT !.pc = "returned"]
    /\ UNCHANGED <<callVars, retry, limiter, progress>>

\* a worker finishes _generate_single_image for its scene, with metadata or,
\* after its retries, with an exception
GenWorkerDone(k) ==
    /\ generation.pc = "running"
    /\ k \in 1..Len(generation.futures)
    /\ generation.futures[k].state = "running"
    /\ \E o \in {"done", "failed"} :
         generation' = [generation EXCEPT !.futures[k].state = o,
                                         !.completed = Append(@, generation.i + k)]
    /\ UNCHANGED <<callVars, retry, limiter, progress>>

\* lines 207 and 214-219: the results of the batch are collected and appended;
\* the exception of a failed future is raised once the pool has shut down
GenCollect ==
    /\ generation.pc = "running"
    /\ \A k \in 1..Len(generation.futures) : generation.futures[k].state # "running"
    /\ IF \E k \in 1..Len(generation.futures) : generation.futures[k].state = "failed"
       THEN generation' = [generation EXCEPT !.pc = "raised", !.futures = <<>>]
       ELSE generation' = [generation EXCEPT
                !.results = @ \o BatchResults(generation),
                !.futures = <<>>,
                !.i = @ + generation.batch_size,
                !.pc = IF generation.i + generation.batch_size < Len(generation.scenes)
                       THEN "sleep" ELSE "submit"]
    /\ UNCHANGED <<callVars, retry, limiter, progress>>

\* line 219: await asyncio.sleep(self.batch_delay) returns
GenSleep ==
    /\ generation.pc = "sleep"
    /\ generation' = [generation EXCEPT !.pc = "submit"]
    /\ UNCHANGED <<callVars, retry, limiter, progress>>

NextGeneration ==
    \/ GenSubmitBatch
    \/ \E k \in 1..MaxWorkers : GenWorkerDone(k)
    \/ GenCollect
    \/ GenSleep

InitGeneration ==
    /\ CallsIdle
    /\ \E scenes \in SeqsUpTo(SceneNumbers, MaxGenScenes) : \E workers \in 1..MaxWorkers :
         generation = [NoGeneration EXCEPT !.pc = "submit", !.scenes = scenes,
                                          !.batch_size = workers]
    /\ retry = NoRetry
    /\ limiter = NoLimiter
    /\ progress = NoProgress

SpecGeneration == InitGeneration /\ [][NextGeneration]_vars

----------------------------------------------------------------------------
(* generate_single_video *)

\* Stems of prompt files, in the order sorted() gives their paths:
\* "egypt.txt" < "rome .txt" < "rome.txt"
SortedNames == <<"egypt", "rome ", "rome">>

PromptNames == Range(SortedNames)

\* str.strip() on the names above
Strip(name) == IF name = "rome " THEN "rome" ELSE name

\* lines 13-16: get_all_prompts
GetAllPrompts(prompts) == SelectSeq(SortedNames, LAMBDA n : n \in prompts)

\* lines 18-24: get_processed_prompts; the lines are stripped, blank ones dropped
GetProcessedPrompts(g) ==
    IF ~g.exists THEN <<>>
    ELSE LET stripped == [k \in 1..Len(g.file) |-> Strip(g.file[k])]
         IN SelectSeq(stripped, LAMBDA line : line # "")

\* lines 26-41: get_next_unprocessed_prompt, "" for (None, None)
GetNextUnprocessedPrompt(g) ==
    LET unprocessed == SelectSeq(GetAllPrompts(g.prompts),
                           LAMBDA n : n \notin Range(GetProcessedPrompts(g)))
    IN IF unprocessed = <<>> THEN "" ELSE unprocessed[1]

\* A call ends: it joins the history
Returned(g, run) == [g EXCEPT !.pc = "idle", !.current = NoRun, !.runs = Append(@, run)]

\* lines 76-82: the next prompt is selected, or the call returns None
SelectPrompt ==
    /\ progress.pc = "idle"
    /\ Len(progress.runs) < MaxProgressCalls
    /\ LET name == GetNextUnprocessedPrompt(progress)
           run == [NoRun EXCEPT !.prompt = name, !.before = progress.file,
                                !.after = progress.file]
       IN IF name = ""
          THEN progress' = Returned(progress, [run EXCEPT !.pipeline = "none"])
          ELSE progress' = [progress EXCEPT !.pc = "run", !.current = run]
    /\ UNCHANGED <<callVars, retry, limiter, generation>>

\* lines 88-92 and 109-116: the pipeline runs; without success the call
\* returns None
RunPipeline ==
    /\ progress.pc = "run"
    /\ \E o \in {"success", "failure", "raise"} :
         IF o = "success"
         THEN progress' = [progress EXCEPT !.pc = "mark", !.current.pipeline = o]
         ELSE progress' = Returned(progress, [progress.current EXCEPT !.pipeline = o])
    /\ UNCHANGED <<callVars, retry, limiter, generation>>

\* lines 43-52 and 97-108: mark_as_processed rewrites the file from the lines
\* read back plus the new name; the open can fail and the writing can stop
\* after the file was truncated
MarkProcessed ==
    /\ progress.pc = "mark"
    /\ LET processed == Append(GetProcessedPrompts(progress), progress.current.prompt)
       IN \E o \in WriteOutcomes : \E n \in 0..(Len(processed) - 1) :
            LET written == IF o = "ok" THEN processed
                           ELSE IF o = "partial" THEN SubSeq(processed, 1, n)
                           ELSE progress.file
                g == [progress EXCEPT !.file = written,
                                      !.exists = (o # "raise") \/ progress.exists]
            IN progress' = Returned(g, [progress.current EXCEPT !.marked = TRUE,
                                                               !.after = written])
    /\ UNCHANGED <<callVars, retry, limiter, generation>>

NextProgress == SelectPrompt \/ RunPipeline \/ MarkProcessed

\* A generator on a prompts directory, no progress file yet
InitProgress ==
    /\ CallsIdle
    /\ \E prompts \in SUBSET PromptNames :
         progress = [NoProgress EXCEPT !.pc = "idle", !.prompts = prompts]
    /\ retry = NoRetry
    /\ limiter = NoLimiter
    /\ generation = NoGeneration

SpecProgress == InitProgress /\ [][NextProgress]_vars

----------------------------------------------------------------------------
(* Properties of process_bedtime_video *)

CeilDiv(n, d) == (n + d - 1) \div d

IsBatchInvoke(e) == e.ev = "invoke" /\ e.cmd.tool = "ffmpeg-images"

IsMuxInvoke(e) == e.ev = "invoke" /\ e.cmd.tool = "ffmpeg-concat"

BatchInvocations(p) == SelectSeq(trace[p], IsBatchInvoke)

MuxInvocations(p) == SelectSeq(trace[p], IsMuxInvoke)

\* The files of kind `kind` that exist in the output directory of call p
OutputFiles(p, kind) ==
    {q \in DOMAIN fs : q.dir = args[p].output_dir /\ q.kind = kind}

\* The scenes and the durations of the first k batches handed to the encoder
ScenesUpTo(p, k) == Flatten([j \in 1..k |-> BatchInvocations(p)[j].cmd.images])

DurationsUpTo(p, k) == Flatten([j \in 1..k |-> BatchInvocations(p)[j].cmd.durations])

LoopCompleted(p) == pc[p] \in {"mux", "muxed", "mux_failed", "probe", "returned"}
                    \/ (pc[p] = "raised" /\ err[p].what \in {"mux", "probe"})

----------------------------------------------------------------------------
(* C1: for a non-empty scene list of n scenes and batch_size >= 1, when every   *)
(* batch encode succeeded, exactly ceil(n / batch_size) intermediate clips     *)
(* exist and the list handed to _combine_videos holds intermediate_1 ..        *)
(* intermediate_ceil(n / batch_size) in ascending batch index.                 *)
C1_ClipCountAndOrder ==
    \A p \in Procs :
        (pc[p] = "mux" /\ Len(args[p].images) > 0) =>
            LET m == CeilDiv(Len(args[p].images), args[p].batch_size)
            IN /\ Len(intermediate_videos[p]) = m
               /\ \A k \in 1..m :
                    intermediate_videos[p][k] = Path(args[p].output_dir, "intermediate", k)
               /\ Cardinality(OutputFiles(p, "intermediate")) = m
               /\ Len(BatchInvocations(p)) = m
               /\ \A k \in 1..m : BatchInvocations(p)[k].cmd.batch_num = k

C1_Witness ==
    /\ pc["A"] = "mux"
    /\ Len(args["A"].images) = 3
    /\ args["A"].batch_size = 2
    /\ Len(intermediate_videos["A"]) = 2

(* C2: the batches handed to the encoder partition the scene sequence: batch   *)
(* after batch they are contiguous slices in order, each of 1 to batch_size    *)
(* scenes, only the last may be smaller, every scene is in one of them once    *)
(* the loop is over, and a batch's durations are those at its scenes' positions. *)
C2_BatchesPartition ==
    \A p \in Procs :
        LET n == Len(args[p].images)
            B == BatchInvocations(p)
        IN /\ \A k \in 1..Len(B) :
                LET hi == Len(ScenesUpTo(p, k))
                    size == Len(B[k].cmd.images)
                IN /\ size >= 1 /\ size <= args[p].batch_size
                   /\ hi <= n
                   /\ B[k].cmd.images = SubSeq(args[p].images, hi - size + 1, hi)
                   /\ B[k].cmd.durations = SubSeq(args[p].scene_durations, hi - size + 1, hi)
                   /\ (size < args[p].batch_size => hi = n)
           /\ (LoopCompleted(p) =>
                 /\ ScenesUpTo(p, Len(B)) = args[p].images
                 /\ DurationsUpTo(p, Len(B)) = args[p].scene_durations)

C2_Witness ==
    /\ pc["A"] = "mux"
    /\ Len(args["A"].images) = 3
    /\ args["A"].batch_size = 2
    /\ args["A"].scene_durations = <<1000, 3000, 3000>>
    /\ Len(BatchInvocations("A")) = 2
    /\ BatchInvocations("A")[2].cmd.durations = <<3000>>

(* C3: the concat manifest names each intermediate clip exactly once, in the   *)
(* order of the clip list, and the scenes of the clips read in manifest order  *)
(* are the input scene list unchanged; so are the scenes of the final video.   *)
C3_ManifestOrder ==
    \A p \in Procs :
        /\ pc[p] = "mux" =>
             LET lines == fs[concat_file[p]].lines
                 clips == ManifestClips(fs, concat_file[p])
             IN /\ Len(lines) = Len(intermediate_videos[p])
                /\ \A k \in 1..Len(lines) :
                     lines[k] = [directive |-> "file", path |-> intermediate_videos[p][k]]
                /\ Cardinality(Range(clips)) = Len(clips)
                /\ Range(clips) = OutputFiles(p, "intermediate")
                /\ Flatten([k \in 1..Len(clips) |-> fs[clips[k]].scenes]) = args[p].images
        /\ pc[p] = "muxed" => fs[output_path[p]].scenes = args[p].images

C3_Witness ==
    /\ pc["A"] = "muxed"
    /\ Len(args["A"].images) = 3
    /\ args["A"].images[1] = args["A"].images[3]
    /\ args["A"].images[1] # args["A"].images[2]
    /\ args["A"].batch_size = 1

(* C4: when the encode of a batch fails, no intermediate clip file of the call *)
(* is left in the output directory when the error reaches the caller, the      *)
(* output file of the failing batch included.                                  *)
C4_NoClipAfterBatchFailure ==
    \A p \in Procs :
        (pc[p] = "raised" /\ err[p] = Err("RuntimeError", "batch")) =>
            OutputFiles(p, "intermediate") = {}

(* C5: a call with zero scenes (no image, no duration) fails with a validation *)
(* error, never invokes the encoder and writes no file.                        *)
C5_ZeroScenesFailFast ==
    \A p \in Procs :
        (pc[p] # "absent" /\ Len(args[p].images) = 0 /\ Len(args[p].scene_durations) = 0) =>
            /\ \A k \in 1..Len(trace[p]) : trace[p][k].ev = "warning"
            /\ DOMAIN fs \subseteq InputFiles
            /\ pc[p] # "returned"
            /\ pc[p] = "raised" => err[p].type \in {"ValueError", "FileNotFoundError"}

(* C6: when the number of images differs from the number of durations, or an   *)
(* image file does not exist, the call raises a validation error (ValueError   *)
(* for the counts, FileNotFoundError for the image) with no tool invoked and   *)
(* no file created or deleted.                                                 *)
C6_ValidationBeforeWork ==
    \A p \in Procs :
        LET mismatch == Len(args[p].images) # Len(args[p].scene_durations)
            missing == \E k \in 1..Len(args[p].images) :
                          args[p].images[k].image_path \notin DOMAIN fs
        IN (pc[p] \notin {"absent", "call"} /\ (mismatch \/ missing)) =>
              /\ pc[p] = "raised"
              /\ err[p] = IF mismatch THEN Err("ValueError", "count")
                                      ELSE Err("FileNotFoundError", "image")
              /\ trace[p] = <<>>
              /\ DOMAIN fs \subseteq InputFiles

C6_Witness ==
    /\ pc["A"] = "raised"
    /\ err["A"] = Err("FileNotFoundError", "image")
    /\ Len(args["A"].images) = 3
    /\ AudioPath \in DOMAIN fs

(* C7 as stated: when the audio file does not exist, the call fails with a     *)
(* missing-file error, no batch is encoded, the mux is not invoked and no      *)
(* intermediate clip, manifest or final video is created.                      *)
C7_AudioMissing_Original ==
    \A p \in Procs :
        (pc[p] \notin {"absent", "call"} /\ args[p].final_audio_path \notin DOMAIN fs) =>
            /\ pc[p] = "raised"
            /\ err[p].type = "FileNotFoundError"
            /\ trace[p] = <<>>
            /\ DOMAIN fs \subseteq InputFiles

(* C7 amended: when the audio file does not exist and the number of images     *)
(* equals the number of durations, the call fails with FileNotFoundError (not  *)
(* the RuntimeError of an encoder failure), no batch is encoded, the mux is    *)
(* not invoked and no intermediate clip, manifest or final video is created.   *)
C7_AudioMissing ==
    \A p \in Procs :
        (/\ pc[p] \notin {"absent", "call"}
         /\ args[p].final_audio_path \notin DOMAIN fs
         /\ Len(args[p].images) = Len(args[p].scene_durations)) =>
            /\ pc[p] = "raised"
            /\ err[p].type = "FileNotFoundError"
            /\ err[p].type # "RuntimeError"
            /\ trace[p] = <<>>
            /\ DOMAIN fs \subseteq InputFiles

C7_Witness ==
    /\ pc["A"] = "raised"
    /\ err["A"] = Err("FileNotFoundError", "audio")
    /\ Len(args["A"].images) = 3
    /\ AudioPath \notin DOMAIN fs

ToDir(path, dir) ==
    IF path.dir \in {"out1", "out2", "out3"} THEN [path EXCEPT !.dir = dir] ELSE path

EventInDir(e, dir) ==
    [e EXCEPT !.path = ToDir(@, dir),
              !.cmd.input = ToDir(@, dir),
              !.cmd.output = ToDir(@, dir)]

TraceInDir(t, dir) == [k \in 1..Len(t) |-> EventInDir(t[k], dir)]

IsWarning(e) == e.ev = "warning"

NotWarning(e) == e.ev # "warning"

\* The files of the output directory of call p, by kind, stamp and completeness
OutputListing(p) ==
    {<<q.kind, q.n, fs[q].complete, fs[q].scenes, fs[q].subs, fs[q].length>> :
        q \in {f \in DOMAIN fs : f.dir = args[p].output_dir}}

MissingSubtitleVsNone ==
    /\ args["A"].subtitle_path = SubtitlePath
    /\ SubtitlePath \notin DOMAIN fs
    /\ args["B"].subtitle_path = NoPath
    /\ replayOf["B"] = "A"

(* C8: a call given a subtitle path that does not exist behaves like the call  *)
(* given no subtitle path, the tools and the clock behaving alike: the same    *)
(* tool invocations (the mux in stream-copy mode), the same files created and  *)
(* deleted, the same outcome, has_subtitles false; it only logs a warning more. *)
C8_MissingSubtitleLikeNone ==
    (MissingSubtitleVsNone /\ Finished("A") /\ Finished("B")) =>
        /\ SelectSeq(trace["A"], NotWarning) = TraceInDir(trace["B"], "out1")
        /\ SelectSeq(trace["B"], IsWarning) = <<>>
        /\ Len(SelectSeq(trace["A"], IsWarning)) =
              (IF ValidationError(args["A"], fs) = NoErr THEN 1 ELSE 0)
        /\ \A k \in 1..Len(MuxInvocations("A")) : MuxInvocations("A")[k].cmd.vcodec = "copy"
        /\ pc["A"] = pc["B"]
        /\ err["A"] = err["B"]
        /\ result["A"] = [result["B"] EXCEPT !.video_file = ToDir(@, "out1")]
        /\ result["A"].has_subtitles = FALSE
        /\ OutputListing("A") = OutputListing("B")

C8_Witness ==
    /\ MissingSubtitleVsNone
    /\ pc["A"] = "returned"
    /\ pc["B"] = "returned"
    /\ Len(args["A"].images) = 2
    /\ args["A"].batch_size = 1
    /\ Len(SelectSeq(trace["A"], IsWarning)) = 1

AssembledAndMuxed(p) ==
    pc[p] \in {"probe", "returned"} \/ (pc[p] = "raised" /\ err[p].what = "probe")

(* C10: after the assembly and the mux of a call completed successfully, no    *)
(* intermediate clip and no concat manifest is left in the output directory,   *)
(* and the final video file exists.                                            *)
C10_OnlyFinalVideoLeft ==
    \A p \in Procs :
        AssembledAndMuxed(p) =>
            /\ OutputFiles(p, "intermediate") = {}
            /\ OutputFiles(p, "concat") = {}
            /\ output_path[p] \in DOMAIN fs
            /\ fs[output_path[p]].kind = "video"
            /\ fs[output_path[p]].complete
            /\ OutputFiles(p, "video") = {output_path[p]}

C10_Witness ==
    /\ pc["A"] = "returned"
    /\ Len(args["A"].images) = 3
    /\ args["A"].batch_size = 2
    /\ Len(intermediate_videos["A"]) = 2

(* C11: whenever a call of process_bedtime_video ends with an error (batch     *)
(* encode failure, mux failure or any later step), no file exists at that      *)
(* call's final output path bedtime_video_<timestamp>.mp4.                     *)
C11_NoFinalVideoOnError ==
    \A p \in Procs :
        pc[p] = "raised" => output_path[p] \notin DOMAIN fs

(* C12: process_bedtime_video returns a result only after every one of the     *)
(* ceil(n / batch_size) batch encodes and the mux have succeeded, and the      *)
(* video_file it returns then exists on disk; in every other execution it      *)
(* raises an error and returns no partial result.                              *)
C12_ResultOnlyAfterAllSucceeded ==
    \A p \in Procs :
        /\ pc[p] = "returned" =>
              /\ Len(BatchInvocations(p)) = CeilDiv(Len(args[p].images), args[p].batch_size)
              /\ \A k \in 1..Len(BatchInvocations(p)) : BatchInvocations(p)[k].outcome = "ok"
              /\ Len(MuxInvocations(p)) = 1
              /\ MuxInvocations(p)[1].outcome = "ok"
              /\ result[p] # NoResult
              /\ result[p].video_file = output_path[p]
              /\ result[p].video_file \in DOMAIN fs
              /\ fs[result[p].video_file].complete
              /\ err[p] = NoErr
        /\ pc[p] = "raised" => (err[p] # NoErr /\ result[p] = NoResult)
        /\ pc[p] # "returned" => result[p] = NoResult

C12_Witness ==
    /\ pc["A"] = "returned"
    /\ Len(args["A"].images) = 3
    /\ args["A"].batch_size = 2
    /\ result["A"].video_file \in DOMAIN fs

\* Call p created the file at path q: it wrote it, or ran a tool that left it
CreatedBy(p, q) ==
    \E k \in 1..Len(trace[p]) :
        /\ trace[p][k].path = q
        /\ \/ trace[p][k].ev = "write"
           \/ trace[p][k].ev = "invoke" /\ trace[p][k].outcome \in {"ok", "partial"}

IsUnlink(e) == e.ev = "unlink"

(* C13: on every path of process_bedtime_video, successful or failing, the     *)
(* combined audio file, the subtitle file and the scene image files are left   *)
(* unchanged: the only files a call ever deletes are intermediate clips and    *)
(* the concat manifest that the call itself created.                           *)
C13_InputsUntouched ==
    [][ /\ \A q \in InputFiles :
             /\ q \in DOMAIN fs <=> q \in DOMAIN fs'
             /\ q \in DOMAIN fs => fs'[q] = fs[q]
        /\ \A q \in (DOMAIN fs) \ (DOMAIN fs') :
             /\ q.kind \in {"intermediate", "concat"}
             /\ \E p \in Procs : q.dir = args[p].output_dir /\ CreatedBy(p, q)
        /\ \A p \in Procs : \A k \in 1..Len(trace'[p]) :
             IsUnlink(trace'[p][k]) =>
                 /\ trace'[p][k].path.kind \in {"intermediate", "concat"}
                 /\ \E j \in 1..(k - 1) :
                      /\ trace'[p][j].path = trace'[p][k].path
                      /\ trace'[p][j].ev \in {"write", "invoke"}
      ]_vars

C13_Witness ==
    /\ pc["A"] = "returned"
    /\ InputFiles \subseteq DOMAIN fs
    /\ args["A"].subtitle_path = SubtitlePath
    /\ \E k \in 1..Len(trace["A"]) :
         IsUnlink(trace["A"][k]) /\ trace["A"][k].path.kind = "intermediate"
    /\ \E k \in 1..Len(trace["A"]) :
         IsUnlink(trace["A"][k]) /\ trace["A"][k].path.kind = "concat"

(* C17: the mux command re-encodes the video with the subtitle filter exactly  *)
(* when a subtitle path was given and that file exists; in every other case it *)
(* passes the video stream through with stream copy and applies no subtitle    *)
(* filter.                                                                     *)
C17_SubtitleFilterIffGivenAndExists ==
    \A p \in Procs : \A k \in 1..Len(MuxInvocations(p)) :
        LET cmd == MuxInvocations(p)[k].cmd
            given == args[p].subtitle_path # NoPath
        IN IF given /\ args[p].subtitle_path \in DOMAIN fs
           THEN cmd.vcodec = "subtitles"
           ELSE cmd.vcodec = "copy"

C17_Witness ==
    /\ Len(MuxInvocations("A")) = 1
    /\ MuxInvocations("A")[1].cmd.vcodec = "subtitles"
    /\ MuxInvocations("A")[1].outcome = "ok"
    /\ fs[output_path["A"]].subs

\* The 0-based position in the scene list of the first scene of batch k
BatchStart(p, k) == (k - 1) * args[p].batch_size

\* The total length of the clips in the list of call p
ClipsLength(p) ==
    Sum([k \in 1..Len(intermediate_videos[p]) |-> fs[intermediate_videos[p][k]].length])

(* C14: for every batch, each scene image is given to the encoder with a hold  *)
(* time equal to that scene's own duration (the duration at the same position  *)
(* of the duration list), so the timeline length of the batch's clip equals    *)
(* the sum of the batch's durations, and the lengths of all clips of a run add *)
(* up to the sum of all scene durations.                                       *)
C14_HoldTimesAreSceneDurations ==
    \A p \in Procs :
        /\ \A k \in 1..Len(BatchInvocations(p)) :
             LET e == BatchInvocations(p)[k]
                 lo == BatchStart(p, k)
                 size == Len(e.cmd.images)
             IN /\ Len(e.cmd.inputs) = size
                /\ \A j \in 1..size :
                     /\ e.cmd.inputs[j].i = args[p].images[lo + j].image_path
                     /\ e.cmd.inputs[j].t = args[p].scene_durations[lo + j]
                /\ (e.outcome = "ok" /\ pc[p] \in {"loop", "mux"}) =>
                     /\ e.path \in DOMAIN fs
                     /\ fs[e.path].length =
                            Sum([j \in 1..size |-> args[p].scene_durations[lo + j]])
        /\ pc[p] = "mux" => ClipsLength(p) = Sum(args[p].scene_durations)

C14_Witness ==
    /\ pc["A"] = "mux"
    /\ args["A"].batch_size = 2
    /\ args["A"].scene_durations = <<1000, 3000, 1000>>
    /\ Len(intermediate_videos["A"]) = 2
    /\ fs[intermediate_videos["A"][1]].length = 4000
    /\ fs[intermediate_videos["A"][2]].length = 1000

(* C15: the duration of the final output equals min(total duration of the      *)
(* concatenated intermediate clips, duration of the audio file): the mux       *)
(* always ends at the shorter of the two streams, with or without subtitles.   *)
C15_FinalIsShorterStream ==
    \A p \in Procs :
        /\ pc[p] = "muxed" =>
              LET visual == ClipsLength(p)
                  audio == fs[args[p].final_audio_path].length
              IN /\ fs[output_path[p]].length <= visual
                 /\ fs[output_path[p]].length <= audio
                 /\ fs[output_path[p]].length \in {visual, audio}
        /\ pc[p] = "returned" =>
              LET visual == Sum(args[p].scene_durations)
                  audio == fs[args[p].final_audio_path].length
              IN /\ result[p].duration = fs[output_path[p]].length
                 /\ result[p].duration <= visual
                 /\ result[p].duration <= audio
                 /\ result[p].duration \in {visual, audio}

C15_Witness ==
    /\ pc["A"] = "returned"
    /\ result["A"].has_subtitles
    /\ Sum(args["A"].scene_durations) = 4000
    /\ fs[AudioPath].length = 2000
    /\ result["A"].duration = 2000

(* C16: for every scene of duration d > 0, the fade-in and fade-out length     *)
(* used in the filter graph is min(0.5, d/4), which is strictly positive, and  *)
(* the fade-out starts at d minus that length.                                 *)
C16_FadeLength ==
    \A p \in Procs : \A k \in 1..Len(BatchInvocations(p)) :
        LET cmd == BatchInvocations(p)[k].cmd
            lo == BatchStart(p, k)
        IN /\ Len(cmd.filter.fades) = Len(cmd.images)
           /\ \A j \in 1..Len(cmd.filter.fades) :
                LET d == args[p].scene_durations[lo + j]
                    f == cmd.filter.fades[j]
                IN /\ IF d <= 4 * MaxFade THEN 4 * f.in_d = d ELSE f.in_d = MaxFade
                   /\ f.out_d = f.in_d
                   /\ f.in_d > 0
                   /\ f.in_st = 0
                   /\ f.out_st = d - f.in_d

C16_Witness ==
    /\ Len(BatchInvocations("A")) = 1
    /\ Len(BatchInvocations("A")[1].cmd.filter.fades) = 2
    /\ BatchInvocations("A")[1].cmd.filter.fades[1].in_d = 250
    /\ BatchInvocations("A")[1].cmd.filter.fades[1].out_st = 750
    /\ BatchInvocations("A")[1].cmd.filter.fades[2].in_d = 500
    /\ BatchInvocations("A")[1].cmd.filter.fades[2].out_st = 2500

IsFileEvent(e) == e.ev \in {"write", "unlink", "invoke"} /\ e.path # NoPath

IsFfmpegInvoke(e) == IsBatchInvoke(e) \/ IsMuxInvoke(e)

\* The ffmpeg commands of call p in order, their paths moved to directory dir
FfmpegCmds(p, dir) ==
    LET t == SelectSeq(trace[p], IsFfmpegInvoke)
    IN [k \in 1..Len(t) |-> EventInDir(t[k], dir).cmd]

(* C18: for two invocations of process_bedtime_video that use disjoint output  *)
(* directories, under every interleaving of their steps each invocation        *)
(* creates and deletes files only inside its own output directory, and each    *)
(* ends with the same outcome and the same files as when it runs alone (call   *)
(* C is call A run alone, the tools and the clock behaving as they did for A). *)
C18_DisjointDirsIsolated ==
    /\ \A p \in Procs : \A k \in 1..Len(trace[p]) :
         IsFileEvent(trace[p][k]) => trace[p][k].path.dir = args[p].output_dir
    /\ \A q \in (DOMAIN fs) \ InputFiles :
         \E p \in Procs : q.dir = args[p].output_dir /\ CreatedBy(p, q)
    /\ (Finished("A") /\ Finished("C") /\ replayOf["C"] = "A") =>
         /\ pc["A"] = pc["C"]
         /\ err["A"] = err["C"]
         /\ result["A"] = [result["C"] EXCEPT !.video_file = ToDir(@, "out1")]
         /\ TraceInDir(trace["A"], "out1") = TraceInDir(trace["C"], "out1")
         /\ OutputListing("A") = OutputListing("C")

C18_Witness ==
    /\ replayOf["C"] = "A"
    /\ pc["A"] = "returned"
    /\ pc["B"] = "raised"
    /\ err["B"].what = "mux"
    /\ pc["C"] = "returned"
    /\ output_path["A"].n = output_path["B"].n
    /\ output_path["B"] \in DOMAIN fs
    /\ Cardinality(OutputListing("A")) = 1

(* C19: two runs of assembly plus mux on the same scene list, durations,       *)
(* batch_size, audio and subtitle make the same sequence of encoder            *)
(* invocations with the same batch contents and the same clip names, and       *)
(* produce final videos of identical duration (the tools behaving alike).      *)
C19_SameInputsSameRuns ==
    (/\ replayOf["B"] = "A"
     /\ Finished("A") /\ Finished("B")
     /\ args["B"] = [args["A"] EXCEPT !.output_dir = "out2"]) =>
        /\ FfmpegCmds("A", "out1") = FfmpegCmds("B", "out1")
        /\ \A k \in 1..Len(BatchInvocations("A")) :
             /\ BatchInvocations("B")[k].cmd.images = BatchInvocations("A")[k].cmd.images
             /\ BatchInvocations("B")[k].cmd.inputs = BatchInvocations("A")[k].cmd.inputs
             /\ BatchInvocations("B")[k].path.n = BatchInvocations("A")[k].path.n
        /\ pc["A"] = pc["B"]
        /\ pc["A"] = "returned" =>
             /\ result["A"].duration = result["B"].duration
             /\ fs[output_path["A"]].length = fs[output_path["B"]].length

C19_Witness ==
    /\ replayOf["B"] = "A"
    /\ pc["A"] = "returned"
    /\ pc["B"] = "returned"
    /\ args["B"] = [args["A"] EXCEPT !.output_dir = "out2"]
    /\ args["A"].subtitle_path = SubtitlePath
    /\ Len(BatchInvocations("B")) = 2
    /\ result["B"].duration = 2000

----------------------------------------------------------------------------
(* Properties of BedtimeHistoryPipeline.run *)

IsListedStage(c) == c.stage # "thumbnail"

\* The calls of the six stages the run depends on, in the order they were made
ListedCalls == SelectSeq(pipeline.calls, IsListedStage)

ListedOrder == <<"story", "images", "audio", "subtitles", "video", "upload">>

(* C20: BedtimeHistoryPipeline.run invokes its stages in the order story       *)
(* generation, image generation, audio generation, subtitle generation, video  *)
(* assembly, upload, each at most once per run; a stage starts only after      *)
(* every earlier one of these stages succeeded, so after the first failing     *)
(* stage no later stage runs and upload is never invoked without a produced    *)
(* final video.                                                                *)
C20_StagesInOrder ==
    /\ Len(ListedCalls) <= Len(ListedOrder)
    /\ \A k \in 1..Len(ListedCalls) :
         /\ ListedCalls[k].stage = ListedOrder[k]
         /\ \A j \in 1..(k - 1) : ListedCalls[j].outcome = "ok"
    /\ \A k \in 1..Len(pipeline.calls) : \A j \in 1..Len(pipeline.calls) :
         pipeline.calls[k].stage = pipeline.calls[j].stage => k = j
    /\ \A k \in 1..Len(pipeline.calls) :
         pipeline.calls[k].stage = "upload" =>
             \E j \in 1..(k - 1) :
                 pipeline.calls[j].stage = "video" /\ pipeline.calls[j].outcome = "ok"
    /\ \A k \in 1..Len(pipeline.calls) :
         (\/ pipeline.calls[k].outcome = "raise"
          \/ IsListedStage(pipeline.calls[k]) /\ pipeline.calls[k].outcome # "ok") =>
             /\ k = Len(pipeline.calls)
             /\ pipeline.pc \in {"except", "returned", "raised"}
             /\ ~pipeline.success

C20_Witness ==
    /\ pipeline.pc = "returned"
    /\ ~pipeline.success
    /\ Len(ListedCalls) = 5
    /\ ListedCalls[5].stage = "video"
    /\ ListedCalls[5].outcome = "none"
    /\ pipeline.error = Err("RuntimeError", "video")
    /\ ~pipeline.thumbnail_file

\* Every one of the six stages was called and returned its result
AllStagesOk ==
    /\ Len(ListedCalls) = Len(ListedOrder)
    /\ \A k \in 1..Len(ListedCalls) : ListedCalls[k].outcome = "ok"

\* The metadata files on disk, complete or not
MetadataFiles ==
    {q \in DOMAIN fs : q.kind \in {"pipeline_metadata", "pipeline_metadata_error"}}

\* Every attempt of the run to write a metadata file succeeded
WritesOk == \A k \in 1..Len(pipeline.writes) : pipeline.writes[k].outcome = "ok"

\* The upload stage reported failure by returning a dictionary with success
\* False (youtube_uploader.py lines 154-155: no "video_url" in it)
UploadReturnedFailure ==
    \E k \in 1..Len(pipeline.calls) :
        pipeline.calls[k].stage = "upload" /\ pipeline.calls[k].outcome = "missing_key"

\* The record named by the returned metadata is on disk, complete, of this kind
RecordPersisted(kind) ==
    /\ pipeline.metadata_file \in DOMAIN fs
    /\ pipeline.metadata_file.kind = kind
    /\ fs[pipeline.metadata_file].complete

FfmpegInvocations(p) == SelectSeq(trace[p], IsFfmpegInvoke)

(* C22: within one call, encoder invocations are strictly sequential: at most  *)
(* one is in progress at any time (each invocation is one blocking             *)
(* subprocess.run of the single-threaded call), the encode of batch k+1 starts *)
(* only after the encode of batch k returned successfully, and the mux starts  *)
(* only after the last batch returned successfully; after a failed batch no    *)
(* further batch is encoded and the mux is never invoked.                      *)
C22_EncodesSequential ==
    \A p \in Procs :
        LET inv == FfmpegInvocations(p)
            m == CeilDiv(Len(args[p].images), args[p].batch_size)
        IN /\ \A k \in 1..Len(inv) :
                /\ IsBatchInvoke(inv[k]) => (k <= m /\ inv[k].cmd.batch_num = k)
                /\ IsMuxInvoke(inv[k]) => k = m + 1
                /\ \A j \in 1..(k - 1) : IsBatchInvoke(inv[j]) /\ inv[j].outcome = "ok"
           /\ (\E k \in 1..Len(inv) : IsBatchInvoke(inv[k]) /\ inv[k].outcome # "ok") =>
                /\ MuxInvocations(p) = <<>>
                /\ pc[p] \in {"batch_failed", "raised"}

C22_Witness ==
    /\ pc["A"] = "raised"
    /\ err["A"] = Err("RuntimeError", "batch")
    /\ Len(args["A"].images) = 3
    /\ args["A"].batch_size = 1
    /\ Len(FfmpegInvocations("A")) = 2
    /\ FfmpegInvocations("A")[1].outcome = "ok"
    /\ FfmpegInvocations("A")[2].outcome = "fail"

(* C23: within one call to process_bedtime_video the core never retries: each  *)
(* batch index is submitted to the encoder at most once and the mux is invoked *)
(* at most once, whatever the outcome of any encoder invocation.               *)
C23_NoRetry ==
    \A p \in Procs :
        /\ \A j \in 1..Len(BatchInvocations(p)) : \A k \in 1..Len(BatchInvocations(p)) :
             (BatchInvocations(p)[j].cmd.batch_num = BatchInvocations(p)[k].cmd.batch_num
              \/ BatchInvocations(p)[j].cmd.output = BatchInvocations(p)[k].cmd.output)
                => j = k
        /\ Len(MuxInvocations(p)) <= 1
        /\ Finished(p) =>
             Len(FfmpegInvocations(p)) <=
                 CeilDiv(Len(args[p].images), args[p].batch_size) + 1

C23_Witness ==
    /\ pc["A"] = "raised"
    /\ err["A"] = Err("RuntimeError", "mux")
    /\ Len(BatchInvocations("A")) = 2
    /\ Len(MuxInvocations("A")) = 1
    /\ MuxInvocations("A")[1].outcome = "partial"

(* C24: whenever the mux step fails, the concat manifest file written by that  *)
(* call no longer exists in the output directory when the error reaches the    *)
(* caller: the manifest is removed on the failure path as well as on the       *)
(* success path.                                                               *)
C24_ManifestRemovedOnMuxFailure ==
    \A p \in Procs :
        (pc[p] = "raised" /\ err[p] = Err("RuntimeError", "mux")) =>
            /\ concat_file[p] \notin DOMAIN fs
            /\ OutputFiles(p, "concat") = {}

(* C25: for a batch of exactly one scene (a one-scene input, or the last batch *)
(* when n mod batch_size = 1) the filter graph still applies the fade-in and   *)
(* fade-out to the scene but joins nothing: it uses a pass-through copy of the *)
(* single faded stream, while every batch of two or more scenes uses a concat  *)
(* over exactly as many streams as the batch has scenes.                       *)
C25_SingleSceneBatchCopies ==
    \A p \in Procs : \A k \in 1..Len(BatchInvocations(p)) :
        LET cmd == BatchInvocations(p)[k].cmd
            size == Len(cmd.images)
        IN /\ size >= 1
           /\ Len(cmd.filter.fades) = size
           /\ \A j \in 1..size :
                cmd.filter.fades[j].in_d > 0 /\ cmd.filter.fades[j].out_d > 0
           /\ size = 1 => cmd.filter.join = "copy"
           /\ size >= 2 => (cmd.filter.join = "concat" /\ cmd.filter.n = size)

C25_Witness ==
    /\ Len(args["A"].images) = 3
    /\ args["A"].batch_size = 2
    /\ Len(BatchInvocations("A")) = 2
    /\ BatchInvocations("A")[1].cmd.filter.join = "concat"
    /\ BatchInvocations("A")[1].cmd.filter.n = 2
    /\ BatchInvocations("A")[2].cmd.filter.join = "copy"
    /\ Len(BatchInvocations("A")[2].cmd.filter.fades) = 1

\* The scenes call p handed to the encoder for its k-th clip
OwnBatch(p, k) ==
    SubSeq(args[p].images, BatchStart(p, k) + 1,
           Min(BatchStart(p, k) + args[p].batch_size, Len(args[p].images)))

\* The k-th clip call p is about to mux is missing, or is not the clip p wrote
ClipLostOrForeign(p, k) ==
    LET clip == intermediate_videos[p][k]
    IN clip \notin DOMAIN fs \/ fs[clip].scenes # OwnBatch(p, k)

\* Call q wrote to or deleted the file at path
Touched(q, path) ==
    \E j \in 1..Len(trace[q]) :
        /\ trace[q][j].path = path
        /\ \/ trace[q][j].ev = "unlink"
           \/ trace[q][j].ev = "invoke" /\ trace[q][j].outcome \in {"ok", "partial"}

(* C26: two concurrent invocations that target the same output directory are   *)
(* not safe.  The clips of both are named by the batch number alone, so the     *)
(* two calls use the same path for the same batch, and whenever a call is at    *)
(* its mux with a clip that is missing or is not the one it wrote, the other    *)
(* call in the same directory overwrote or deleted that clip; the witness is    *)
(* the interleaving in which this happens and the mux reads the foreign clip.   *)
C26_SharedDirCollides ==
    /\ \A j \in 1..Len(BatchInvocations("A")) : \A k \in 1..Len(BatchInvocations("B")) :
         (/\ args["A"].output_dir = args["B"].output_dir
          /\ BatchInvocations("A")[j].cmd.batch_num = BatchInvocations("B")[k].cmd.batch_num)
            => BatchInvocations("A")[j].cmd.output = BatchInvocations("B")[k].cmd.output
    /\ \A p \in Procs : \A k \in 1..Len(intermediate_videos[p]) :
         (pc[p] = "mux" /\ ClipLostOrForeign(p, k)) =>
             \E q \in Procs \ {p} :
                 /\ args[q].output_dir = args[p].output_dir
                 /\ Touched(q, intermediate_videos[p][k])

C26_Witness ==
    /\ args["A"].output_dir = args["B"].output_dir
    /\ Len(args["A"].images) = 1
    /\ pc["A"] = "returned"
    /\ result["A"].video_file \in DOMAIN fs
    /\ fs[result["A"].video_file].complete
    /\ fs[result["A"].video_file].scenes = args["B"].images
    /\ fs[result["A"].video_file].scenes # args["A"].images

----------------------------------------------------------------------------
(* Properties of the decorators *)

LastCall == retry.calls[Len(retry.calls)]

Raises(call) == call.outcome \in {"exception", "base_exception"}

(* C27: a function wrapped by retry_with_backoff(max_retries=m) is invoked at   *)
(* most m+1 times per call of the wrapper; every invocation before the last    *)
(* raised, the wrapper returns the result of the first invocation that         *)
(* succeeds, and when all m+1 invocations raised it propagates the exception   *)
(* of the last one.                                                            *)
C27_BoundedRetries ==
    /\ Len(retry.calls) <= retry.max_retries + 1
    /\ \A k \in 1..Len(retry.calls) :
         /\ retry.calls[k].attempt = k - 1
         /\ k < Len(retry.calls) => retry.calls[k].outcome = "exception"
    /\ (retry.calls # <<>> /\ LastCall.outcome = "return") =>
           (retry.pc = "returned" /\ retry.returned = LastCall.tag)
    /\ (retry.pc = "returned" /\ retry.max_retries >= 0) =>
           LastCall.outcome = "return"
    /\ (/\ Len(retry.calls) = retry.max_retries + 1
        /\ \A k \in 1..Len(retry.calls) : Raises(retry.calls[k])) =>
           (retry.calls # <<>> => retry.pc = "raised" /\ retry.raised = LastCall)

C27_Witness ==
    /\ retry.pc = "raised"
    /\ retry.max_retries = 2
    /\ Len(retry.calls) = 3
    /\ retry.calls[1].tag # retry.calls[3].tag
    /\ LastCall.outcome = "exception"

(* C28: for a function wrapped by rate_limiter(period=p), any two invocations  *)
(* of the underlying function start at least p apart, also when the wrapper   *)
(* is called concurrently from several worker threads.                        *)
C28_StartsPeriodApart ==
    \A j \in 1..Len(limiter.starts) : \A k \in 1..Len(limiter.starts) :
        j < k => limiter.starts[k].time - limiter.starts[j].time >= limiter.period

----------------------------------------------------------------------------
(* Properties of generate_bedtime_images *)

(* C29: generate_bedtime_images returns, for every completion order of its    *)
(* worker threads, a list with one entry per input scene whose i-th entry is  *)
(* the image metadata of the i-th input scene, so that pairing it by position *)
(* with the per-scene audio entries matches each image with its own scene.    *)
C29_ResultsInSceneOrder ==
    generation.pc = "returned" =>
        /\ Len(generation.results) = Len(generation.scenes)
        /\ \A k \in 1..Len(generation.results) :
             /\ generation.results[k] = ImageMetadata(generation.scenes[k])
             /\ generation.results[k].scene_number =
                    SceneAudios(generation.scenes)[k].scene_number

C29_Witness ==
    /\ generation.pc = "returned"
    /\ Len(generation.scenes) = 3
    /\ generation.scenes[1] # generation.scenes[2]
    /\ generation.completed[1] = 2
    /\ generation.completed[2] = 1

----------------------------------------------------------------------------
(* Properties of generate_single_video *)

\* The position of a name in the alphabetical order
NameIndex(name) == CHOOSE k \in 1..Len(SortedNames) : SortedNames[k] = name

\* The calls that selected a prompt
Selecting(k) == progress.runs[k].prompt # ""

(* C30: over any sequence of generate_single_video calls on a fixed prompts    *)
(* directory, a prompt name is appended to the progress file only after the   *)
(* pipeline reported success for it, every prompt is appended at most once,   *)
(* prompts are selected in alphabetical order, and a failed run leaves the    *)
(* progress file unchanged so that the next call selects the same prompt.     *)
C30_ProgressFile ==
    \A k \in 1..Len(progress.runs) :
        LET run == progress.runs[k]
        IN /\ run.after # run.before =>
                (run.pipeline = "success" /\ run.after = Append(run.before, run.prompt))
           /\ \A j \in 1..(k - 1) :
                (progress.runs[j].marked /\ run.marked) => progress.runs[j].prompt # run.prompt
           /\ \A j \in 1..(k - 1) :
                (Selecting(j) /\ Selecting(k)) =>
                    NameIndex(progress.runs[j].prompt) <= NameIndex(run.prompt)
           /\ (run.pipeline \in {"failure", "raise"} /\ k < Len(progress.runs)) =>
                (run.after = run.before /\ progress.runs[k + 1].prompt = run.prompt)

============================================================================
